---------------------------- MODULE Spec2Model ----------------------------
(***************************************************************************)
(* Model of the ytagent summarization backend:                             *)
(*   backend/agents/segmenter.py   word counting, natural breaks,          *)
(*                                 segment_transcript, should_segment,     *)
(*                                 segmenter_node                          *)
(*   backend/agents/summarizer.py  summarize_segment, create_global_summary*)
(*                                 summarizer_node                         *)
(*   backend/graph/pipeline.py     the stage graph and process_video       *)
(*                                                                         *)
(* TEXT REPRESENTATION.  A transcript is a sequence of tokens.  A token is *)
(* a record [k, n]:                                                        *)
(*   k = "w"    a run of n plain words joined by single spaces (n >= 1);   *)
(*              plain words hold letters only and contain none of the      *)
(*              BREAK_MARKERS keywords                                     *)
(*   k = "sp"   one space            k = "nl"   one newline                *)
(*   k = "dot"  the character "."                                          *)
(*   k = "but"  the word "but"       k = "now"  the word "now"             *)
(* A position is the number of tokens before it.  Whitespace and "." are   *)
(* one character each and the modelled texts hold whitespace runs of at    *)
(* most two characters, so every position the code computes falls on a     *)
(* token boundary, and comparisons of positions and slices are those of    *)
(* the character string.  Word counts are exact: a run of n words counts n.*)
(***************************************************************************)
EXTENDS Integers, Sequences, FiniteSets, TLC

(***************************************************************************)
(* Program constants (segmenter.py)                                        *)
(***************************************************************************)
THRESHOLD_SHORT == 1500
THRESHOLD_MEDIUM == 4000
THRESHOLD_LONG == 4000
SEGMENT_TARGET == 1000
SEGMENT_MIN == 1000
SEGMENT_MAX == 1500

THRESHOLDS == [SHORT |-> THRESHOLD_SHORT, MEDIUM |-> THRESHOLD_MEDIUM,
               LONG |-> THRESHOLD_LONG]

SEGMENT_SIZE == [TARGET |-> SEGMENT_TARGET, MIN |-> SEGMENT_MIN,
                 MAX |-> SEGMENT_MAX]

None == [none |-> TRUE]

(***************************************************************************)
(* Tokens                                                                  *)
(***************************************************************************)
W(n) == [k |-> "w", n |-> n]
SP == [k |-> "sp", n |-> 1]
NL == [k |-> "nl", n |-> 1]
DOT == [k |-> "dot", n |-> 1]
BUT == [k |-> "but", n |-> 1]
NOW == [k |-> "now", n |-> 1]

\* str.isspace() / the regex class \s
IsSpace(t) == t.k \in {"sp", "nl"}

\* Python slice text[a:b] with 0 <= a, b (b clipped to the length)
Slice(text, a, b) ==
    LET e == IF b > Len(text) THEN Len(text) ELSE b
    IN  IF a >= e THEN << >> ELSE SubSeq(text, a + 1, e)

RECURSIVE LeadingSpaces(_)
\* number of whitespace characters str.strip() removes at the front
LeadingSpaces(text) ==
    IF text = << >> \/ ~IsSpace(Head(text)) THEN 0
    ELSE 1 + LeadingSpaces(Tail(text))

RECURSIVE TrailingSpaces(_)
TrailingSpaces(text) ==
    IF text = << >> \/ ~IsSpace(text[Len(text)]) THEN 0
    ELSE 1 + TrailingSpaces(SubSeq(text, 1, Len(text) - 1))

\* str.strip()
Strip(text) ==
    LET a == LeadingSpaces(text)
    IN  IF a = Len(text) THEN << >>
        ELSE SubSeq(text, a + 1, Len(text) - TrailingSpaces(text))

RECURSIVE WordsUpTo(_, _)
\* number of whitespace-separated words that start in text[1..i]: a token
\* after whitespace (or at the front) starts a word, and a run of n words
\* holds n - 1 further word starts
WordsUpTo(text, i) ==
    IF i = 0 THEN 0
    ELSE LET t == text[i]
             starts == IF IsSpace(t) THEN 0
                       ELSE IF i = 1 \/ IsSpace(text[i - 1]) THEN 1 ELSE 0
             inner == IF t.k = "w" THEN t.n - 1 ELSE 0
         IN  WordsUpTo(text, i - 1) + starts + inner

\* len(text.split())
SplitLen(text) == WordsUpTo(text, Len(text))

count_words(text) == IF text = << >> THEN 0 ELSE SplitLen(text)


(***************************************************************************)
(* find_natural_breaks.  In the modelled alphabet four BREAK_MARKERS       *)
(* patterns can match: \n\n+ (strong), now,?\s+ (medium), (?<=[.!?])\s+    *)
(* and "but" (weak); the other patterns need characters or keywords the    *)
(* texts do not hold.                                                      *)
(***************************************************************************)
RECURSIVE SpaceRun(_, _)
\* length of the whitespace run \s+ starting at position p (0 if none)
SpaceRun(text, p) ==
    IF p >= Len(text) \/ ~IsSpace(text[p + 1]) THEN 0
    ELSE 1 + SpaceRun(text, p + 1)

RECURSIVE NewlineRun(_, _)
NewlineRun(text, p) ==
    IF p >= Len(text) \/ text[p + 1].k # "nl" THEN 0
    ELSE 1 + NewlineRun(text, p + 1)

\* re.finditer(r'\n\n+') has a match starting at p
MatchParagraph(text, p) ==
    /\ NewlineRun(text, p) >= 2
    /\ (p = 0 \/ text[p].k # "nl")

\* re.finditer(r'(?i)now,?\s+') has a match starting at p
MatchNow(text, p) ==
    /\ p < Len(text)
    /\ text[p + 1].k = "now"
    /\ SpaceRun(text, p + 1) >= 1

\* re.finditer(r'(?<=[.!?])\s+') has a match starting at p
MatchSentence(text, p) ==
    /\ p >= 1
    /\ text[p].k = "dot"
    /\ SpaceRun(text, p) >= 1

\* re.finditer(r'(?i)but') has a match starting at p
MatchBut(text, p) ==
    /\ p < Len(text)
    /\ text[p + 1].k = "but"

Break(p, s, txt) == [position |-> p, strength |-> s, text |-> txt]

\* the breaks appended for position p, in BREAK_MARKERS order (strong,
\* medium, weak): the order a stable sort by position keeps
BreaksAt(text, p) ==
    (IF MatchParagraph(text, p)
        THEN << Break(p, "strong", Slice(text, p, p + NewlineRun(text, p))) >>
        ELSE << >>)
    \o (IF MatchNow(text, p)
        THEN << Break(p, "medium",
                      Slice(text, p, p + 1 + SpaceRun(text, p + 1))) >>
        ELSE << >>)
    \o (IF MatchSentence(text, p)
        THEN << Break(p, "weak", Slice(text, p, p + SpaceRun(text, p))) >>
        ELSE << >>)
    \o (IF MatchBut(text, p)
        THEN << Break(p, "weak", Slice(text, p, p + 1)) >>
        ELSE << >>)

RECURSIVE BreaksFrom(_, _)
BreaksFrom(text, p) ==
    IF p >= Len(text) THEN << >>
    ELSE BreaksAt(text, p) \o BreaksFrom(text, p + 1)

find_natural_breaks(text) == BreaksFrom(text, 0)

(***************************************************************************)
(* create_segment                                                          *)
(***************************************************************************)
create_segment(text, index) ==
    [content |-> text, index |-> index, word_count |-> count_words(text),
     metadata |-> [index |-> index, word_count |-> count_words(text)]]

(***************************************************************************)
(* segment_transcript: the sentence-boundary search of lines 140-148       *)
(***************************************************************************)
RECURSIVE SentenceBreaksFrom(_, _)
\* the matches of (?<=[.!?])\s+ in text from position p on, in order, as
\* [start, end] records (non-overlapping: the search resumes at the end)
SentenceBreaksFrom(text, p) ==
    IF p >= Len(text) THEN << >>
    ELSE IF MatchSentence(text, p)
         THEN << [start |-> p, end |-> p + SpaceRun(text, p),
                  text |-> Slice(text, p, p + SpaceRun(text, p))] >>
              \o SentenceBreaksFrom(text, p + SpaceRun(text, p))
         ELSE SentenceBreaksFrom(text, p + 1)

RECURSIVE LastGoodFrom(_, _, _, _)
\* the loop over sentence_breaks: keep the last match whose prefix has at
\* most MAX words, stop at the first whose prefix is larger
LastGoodFrom(potential_segment, sentence_breaks, i, last_good_break) ==
    IF i > Len(sentence_breaks) THEN last_good_break
    ELSE LET sentence_break == sentence_breaks[i]
             sentence_segment == Slice(potential_segment, 0, sentence_break.end)
         IN  IF count_words(sentence_segment) <= SEGMENT_SIZE.MAX
             THEN LastGoodFrom(potential_segment, sentence_breaks, i + 1,
                               sentence_break)
             ELSE last_good_break

last_good_break_of(potential_segment) ==
    LastGoodFrom(potential_segment,
                 SentenceBreaksFrom(potential_segment, 0), 1, None)

\* lines 151-155: the break forced at a sentence boundary.  The offset
\* last_good_break.end() is an offset into the stripped potential_segment
\* and is added to current_position as it is.
SentenceBreakAt(current_position, last_good_break) ==
    [position |-> current_position + last_good_break.end,
     strength |-> "weak", text |-> last_good_break.text]

\* WithinLimits without the upper limit
WithinLimits_NoMax(word_count) == word_count >= SEGMENT_SIZE.MIN

\* line 134-135: the size test of a candidate segment
WithinLimits(word_count) ==
    /\ word_count >= SEGMENT_SIZE.MIN
    /\ word_count <= SEGMENT_SIZE.MAX

RECURSIVE LookAhead(_, _, _, _)
\* lines 126-156: the first break after current_position that gives a
\* segment within the size limits, or a sentence break forced before an
\* oversized one; None when the list is exhausted
LookAhead(transcript, breaks, i, current_position) ==
    IF i > Len(breaks) THEN None
    ELSE LET break_point == breaks[i]
             potential_segment ==
                 Strip(Slice(transcript, current_position, break_point.position))
             word_count == count_words(potential_segment)
             last_good_break == last_good_break_of(potential_segment)
         IN  IF break_point.position <= current_position
             THEN LookAhead(transcript, breaks, i + 1, current_position)
             ELSE IF word_count >= SEGMENT_SIZE.MIN
                  THEN IF WithinLimits(word_count)
                       THEN break_point
                       ELSE IF last_good_break # None
                            THEN SentenceBreakAt(current_position, last_good_break)
                            ELSE LookAhead(transcript, breaks, i + 1,
                                           current_position)
                  ELSE LookAhead(transcript, breaks, i + 1, current_position)

(***************************************************************************)
(* segment_transcript: the forced break of lines 159-175                   *)
(***************************************************************************)
RECURSIVE JoinFirstWords(_, _, _, _, _)
\* " ".join(text.split()[:m]) for a stripped text: whitespace runs become
\* one space, and the text stops after its m-th word.  i is the next token,
\* w the number of words begun so far, out the string built so far.
JoinFirstWords(text, i, m, w, out) ==
    IF i > Len(text) THEN out
    ELSE LET t == text[i]
             glued == i > 1 /\ ~IsSpace(text[i - 1])
             new == IF t.k = "w" THEN (IF glued THEN t.n - 1 ELSE t.n)
                    ELSE (IF glued THEN 0 ELSE 1)
             keep == (m - w) + (IF glued THEN 1 ELSE 0)
         IN  IF IsSpace(t)
             THEN IF IsSpace(text[i - 1])
                  THEN JoinFirstWords(text, i + 1, m, w, out)
                  ELSE IF w >= m THEN out
                       ELSE JoinFirstWords(text, i + 1, m, w, Append(out, SP))
             ELSE IF w + new <= m
                  THEN JoinFirstWords(text, i + 1, m, w + new, Append(out, t))
                  ELSE Append(out, W(keep))

FirstWords(text, m) == JoinFirstWords(Strip(text), 1, m, 0, << >>)

RECURSIVE RFindDotFrom(_, _)
RFindDotFrom(text, i) ==
    IF i = 0 THEN -1
    ELSE IF text[i].k = "dot" THEN i - 1
         ELSE RFindDotFrom(text, i - 1)

\* text.rfind("."): the position of the last ".", -1 when there is none
RFindDot(text) == RFindDotFrom(text, Len(text))

\* lines 160-170: the text of the forced segment
ForcedSegment(transcript, current_position) ==
    LET rest == Slice(transcript, current_position, Len(transcript))
        first == Strip(FirstWords(rest, SEGMENT_SIZE.MAX))
        last_period == RFindDot(first)
    IN  IF SplitLen(rest) <= SEGMENT_SIZE.MAX
        THEN Strip(rest)
        ELSE IF last_period > 0
             THEN Strip(Slice(first, 0, last_period + 1))
             ELSE first

(***************************************************************************)
(* segment_transcript as a loop: one record holds its local variables.     *)
(* spans and forced are history fields: the slice bounds each appended     *)
(* segment was cut with, and whether the forced break was taken.           *)
(***************************************************************************)
SegStart(transcript) ==
    [transcript |-> transcript,
     breaks |-> find_natural_breaks(transcript),
     segments |-> << >>,
     current_position |-> 0,
     segment_index |-> 0,
     current_segment |-> << >>,
     suitable_break |-> None,
     pc |-> "loop",
     spans |-> << >>,
     forced |-> FALSE]

\* ForcedBreak that goes on with the text after the forced segment
ForcedBreak_Continue(st) ==
    LET current_segment == ForcedSegment(st.transcript, st.current_position)
    IN  [st EXCEPT
           !.suitable_break = None,
           !.current_segment = current_segment,
           !.segments = IF current_segment # << >>
                        THEN Append(@, create_segment(current_segment,
                                                      st.segment_index))
                        ELSE @,
           !.segment_index = IF current_segment # << >> THEN @ + 1 ELSE @,
           !.spans = IF current_segment # << >>
                     THEN Append(@, [from |-> st.current_position,
                                     to |-> Len(st.transcript)])
                     ELSE @,
           !.current_position =
               IF SplitLen(Slice(st.transcript, st.current_position,
                                 Len(st.transcript))) <= SEGMENT_SIZE.MAX
               THEN Len(st.transcript)
               ELSE st.current_position + 1,
           !.forced = TRUE]

\* lines 159-175: no suitable break: append what ForcedSegment gives and
\* leave the loop
ForcedBreak(st) ==
    LET current_segment == ForcedSegment(st.transcript, st.current_position)
    IN  [st EXCEPT
           !.suitable_break = None,
           !.current_segment = current_segment,
           !.segments = IF current_segment # << >>
                        THEN Append(@, create_segment(current_segment,
                                                      st.segment_index))
                        ELSE @,
           !.spans = IF current_segment # << >>
                     THEN Append(@, [from |-> st.current_position,
                                     to |-> Len(st.transcript)])
                     ELSE @,
           !.forced = TRUE,
           !.pc = "done"]

\* NaturalBreak that forgets to advance segment_index
NaturalBreak_SameIndex(st, suitable_break) ==
    LET current_segment ==
            Strip(Slice(st.transcript, st.current_position,
                        suitable_break.position))
    IN  [st EXCEPT
           !.suitable_break = suitable_break,
           !.current_segment = current_segment,
           !.segments = IF current_segment # << >>
                        THEN Append(@, create_segment(current_segment,
                                                      st.segment_index))
                        ELSE @,
           !.spans = IF current_segment # << >>
                     THEN Append(@, [from |-> st.current_position,
                                     to |-> suitable_break.position])
                     ELSE @,
           !.current_position = suitable_break.position]

\* NaturalBreak that does not move current_position to the break
NaturalBreak_StayPut(st, suitable_break) ==
    LET current_segment ==
            Strip(Slice(st.transcript, st.current_position,
                        suitable_break.position))
    IN  [st EXCEPT
           !.suitable_break = suitable_break,
           !.current_segment = current_segment,
           !.segments = IF current_segment # << >>
                        THEN Append(@, create_segment(current_segment,
                                                      st.segment_index))
                        ELSE @,
           !.segment_index = IF current_segment # << >> THEN @ + 1 ELSE @,
           !.spans = IF current_segment # << >>
                     THEN Append(@, [from |-> st.current_position,
                                     to |-> suitable_break.position])
                     ELSE @]

\* lines 177-184: cut the segment that ends at the suitable break and go on
\* from the break
NaturalBreak(st, suitable_break) ==
    LET current_segment ==
            Strip(Slice(st.transcript, st.current_position,
                        suitable_break.position))
    IN  [st EXCEPT
           !.suitable_break = suitable_break,
           !.current_segment = current_segment,
           !.segments = IF current_segment # << >>
                        THEN Append(@, create_segment(current_segment,
                                                      st.segment_index))
                        ELSE @,
           !.segment_index = IF current_segment # << >> THEN @ + 1 ELSE @,
           !.spans = IF current_segment # << >>
                     THEN Append(@, [from |-> st.current_position,
                                     to |-> suitable_break.position])
                     ELSE @,
           !.current_position = suitable_break.position]

\* one evaluation of the while condition of line 121 and, when it holds,
\* one pass through the loop body
SegIter(st) ==
    LET suitable_break ==
            LookAhead(st.transcript, st.breaks, 1, st.current_position)
    IN  IF ~(st.current_position < Len(st.transcript))
        THEN [st EXCEPT !.pc = "done"]
        ELSE IF suitable_break = None
             THEN ForcedBreak(st)
             ELSE NaturalBreak(st, suitable_break)

RECURSIVE SegRun(_)
SegRun(st) == IF st.pc = "done" THEN st ELSE SegRun(SegIter(st))

\* segment_transcript(transcript): the list it returns
segment_transcript(transcript) == SegRun(SegStart(transcript)).segments

(***************************************************************************)
(* should_segment and segmenter_node                                       *)
(***************************************************************************)
\* Optional values: a null string, a null text and a null segment list
NoneStr == "None"
NoneText == << [k |-> "None", n |-> 0] >>
NoneSegments == << [content |-> NoneText,
                    metadata |-> [index |-> -1, word_count |-> -1]] >>

\* an error message with the values formatted into it; NoError is None
Err(msg, detail) == [msg |-> msg, detail |-> detail]
NoError == Err(NoneStr, << >>)

\* Python truthiness of an Optional[str]
Truthy(text) == text # NoneText /\ text # << >>

\* should_segment with the SHORT bound excluded
should_segment_StrictShort(transcript) ==
    LET word_count == count_words(transcript)
        category == IF word_count < THRESHOLDS.SHORT THEN "SHORT"
                    ELSE IF word_count <= THRESHOLDS.MEDIUM THEN "MEDIUM"
                    ELSE "LONG"
    IN  [word_count |-> word_count,
         category |-> category,
         needs_segmentation |-> (category = "LONG"),
         threshold_used |-> THRESHOLDS[category]]

\* lines 188-210
should_segment(transcript) ==
    LET word_count == count_words(transcript)
        category == IF word_count <= THRESHOLDS.SHORT THEN "SHORT"
                    ELSE IF word_count <= THRESHOLDS.MEDIUM THEN "MEDIUM"
                    ELSE "LONG"
        needs_segmentation == IF word_count <= THRESHOLDS.SHORT THEN FALSE
                              ELSE IF word_count <= THRESHOLDS.MEDIUM THEN FALSE
                              ELSE TRUE
    IN  [word_count |-> word_count,
         category |-> category,
         needs_segmentation |-> needs_segmentation,
         threshold_used |-> THRESHOLDS[category]]

\* lines 238-248: the segments in the dictionary format of the state
SegmentsData(segments) ==
    [i \in DOMAIN segments |->
        [content |-> segments[i].content,
         metadata |-> [index |-> segments[i].index,
                       word_count |-> segments[i].word_count]]]

\* segmenter_node that segments whatever the length
segmenter_node_Always(state) ==
    [state EXCEPT
       !.segmentation_info = should_segment(state.transcript),
       !.needs_segmentation = TRUE,
       !.segments = SegmentsData(segment_transcript(state.transcript))]

\* lines 212-277: the state after the node's update
segmenter_node(state) ==
    LET transcript == state.transcript
        segmentation_info == should_segment(transcript)
    IN  IF ~Truthy(transcript)
        THEN [state EXCEPT
                !.error = Err("No transcript provided", << >>),
                !.segmentation_info = None,
                !.needs_segmentation = FALSE,
                !.segments = NoneSegments]
        ELSE IF segmentation_info.needs_segmentation
             THEN [state EXCEPT
                     !.segmentation_info = segmentation_info,
                     !.needs_segmentation = TRUE,
                     !.segments = SegmentsData(segment_transcript(transcript))]
             ELSE [state EXCEPT
                     !.segmentation_info = segmentation_info,
                     !.needs_segmentation = FALSE,
                     !.segments =
                         << [content |-> transcript,
                             metadata |->
                                 [index |-> 0,
                                  word_count |-> segmentation_info.word_count]] >>]

(***************************************************************************)
(* The two LLM providers.  An invocation returns a text ("text", the empty *)
(* string or a blank string) or raises.  A scenario fixes what the primary *)
(* provider (openai) and the secondary provider (ollama) would do for one  *)
(* prompt.                                                                 *)
(***************************************************************************)
RAISE == "RAISE"

OpenAIOutcomes == { "text", "", RAISE }

OllamaOutcomes == { "text", "", " ", RAISE }

\* the ollama outcome is only looked at when openai raises
Scenarios ==
    { sc \in [openai : OpenAIOutcomes, ollama : OllamaOutcomes] :
        sc.openai # RAISE => sc.ollama = "text" }

\* text.strip() of an LLM output is non-empty
NonBlank(text) == text \notin { "", " " }

\* an entry of the call log: fn was entered ("call"), invoked a provider
\* ("openai", "ollama"), the invocation raised ("openai raised", "ollama
\* raised"), or fn was left: it returned a value ("return"), returned its
\* error dictionary ("error") or raised ("raise")
Call(fn, provider, input) == [fn |-> fn, provider |-> provider, input |-> input]

\* the entries a provider invocation leaves in the call log: the invocation
\* and, when it raised, the exception
Invoked(fn, provider, input, raised) ==
    IF raised
    THEN << Call(fn, provider, input), Call(fn, provider \o " raised", input) >>
    ELSE << Call(fn, provider, input) >>

\* InvokeChecked that also falls back when openai answers the empty string
InvokeChecked_FallbackOnEmpty(fn, input, sc) ==
    IF sc.openai # RAISE /\ sc.openai # ""
    THEN [raised |-> FALSE, text |-> sc.openai,
          calls |-> Invoked(fn, "openai", input, FALSE)]
    ELSE IF sc.ollama = RAISE \/ sc.ollama = ""
         THEN [raised |-> TRUE, text |-> "Both OpenAI and Ollama failed",
               calls |-> Invoked(fn, "openai", input, sc.openai = RAISE)
                         \o Invoked(fn, "ollama", input, sc.ollama = RAISE)]
         ELSE [raised |-> FALSE, text |-> sc.ollama,
               calls |-> Invoked(fn, "openai", input, sc.openai = RAISE)
                         \o Invoked(fn, "ollama", input, FALSE)]

\* summarizer.py lines 175-193 (and insights.py 117-133): openai first,
\* ollama when openai raised; an empty ollama answer counts as a failure
InvokeChecked(fn, input, sc) ==
    IF sc.openai # RAISE
    THEN [raised |-> FALSE, text |-> sc.openai,
          calls |-> Invoked(fn, "openai", input, FALSE)]
    ELSE IF sc.ollama = RAISE \/ sc.ollama = ""
         THEN [raised |-> TRUE, text |-> "Both OpenAI and Ollama failed",
               calls |-> Invoked(fn, "openai", input, TRUE)
                         \o Invoked(fn, "ollama", input, sc.ollama = RAISE)]
         ELSE [raised |-> FALSE, text |-> sc.ollama,
               calls |-> Invoked(fn, "openai", input, TRUE)
                         \o Invoked(fn, "ollama", input, FALSE)]

\* summarizer.py lines 113-120: the same fallback without the emptiness test
InvokeUnchecked(fn, input, sc) ==
    IF sc.openai # RAISE
    THEN [raised |-> FALSE, text |-> sc.openai,
          calls |-> Invoked(fn, "openai", input, FALSE)]
    ELSE IF sc.ollama = RAISE
         THEN [raised |-> TRUE, text |-> "ollama error",
               calls |-> Invoked(fn, "openai", input, TRUE)
                         \o Invoked(fn, "ollama", input, TRUE)]
         ELSE [raised |-> FALSE, text |-> sc.ollama,
               calls |-> Invoked(fn, "openai", input, TRUE)
                         \o Invoked(fn, "ollama", input, FALSE)]

(***************************************************************************)
(* summarize_segment and create_global_summary                             *)
(***************************************************************************)
\* a summary dictionary; the keys a dictionary lacks hold -1 or << >>
Summary(content, type, video_type, index, words, count, failed) ==
    [content |-> content,
     metadata |-> [type |-> type, video_type |-> video_type,
                   segment_index |-> index, word_count |-> words,
                   segment_count |-> count, failed_segments |-> failed]]

NoSummary == Summary("", NoneStr, NoneStr, -1, -1, -1, << >>)

\* class_info.get("type", "General Content") of the parsed classification
VideoType(classification) == classification.type

\* lines 139-239: the summary it returns, or raised
summarize_segment(text, classification, segment_info, sc) ==
    LET video_type == VideoType(classification)
        r == InvokeChecked("summarize_segment", text, sc)
        entered == << Call("summarize_segment", "call", text) >>
        raise == << Call("summarize_segment", "raise", text) >>
        return == << Call("summarize_segment", "return", text) >>
    IN  IF r.raised
        THEN [raised |-> TRUE, summary |-> NoSummary,
              calls |-> entered \o r.calls \o raise]
        ELSE IF ~NonBlank(r.text)
             THEN [raised |-> TRUE, summary |-> NoSummary,
                   calls |-> entered \o r.calls \o raise]
             ELSE [raised |-> FALSE,
                   summary |-> Summary(r.text, "segment_summary", video_type,
                                       segment_info.index,
                                       segment_info.word_count, -1, << >>),
                   calls |-> entered \o r.calls \o return]

\* lines 106-137: the global summary, or the dictionary with "error"
create_global_summary(segment_summaries, video_type, sc) ==
    LET r == InvokeUnchecked("create_global_summary", << >>, sc)
        entered == << Call("create_global_summary", "call", << >>) >>
    IN  IF r.raised
        THEN [error |-> TRUE, summary |-> NoSummary,
              calls |-> entered \o r.calls
                        \o << Call("create_global_summary", "error", << >>) >>]
        ELSE [error |-> FALSE,
              summary |-> Summary(r.text, "global_summary", video_type, -1, -1,
                                  Len(segment_summaries), << >>),
              calls |-> entered \o r.calls
                        \o << Call("create_global_summary", "return", << >>) >>]

(***************************************************************************)
(* summarizer_node                                                         *)
(***************************************************************************)
\* lines 252-275: the segments of the state, or the transcript as one
\* segment, or << >> when there is no content
InputSegments(state) ==
    IF state.segments = NoneSegments \/ state.segments = << >>
    THEN IF Truthy(state.transcript) /\ Strip(state.transcript) # << >>
         THEN << [content |-> state.transcript,
                  metadata |-> [index |-> 0,
                                word_count |-> SplitLen(state.transcript)]] >>
         ELSE << >>
    ELSE state.segments

RECURSIVE ValidSegments(_)
\* lines 278-301: the stripped segments with non-empty content
ValidSegments(segments) ==
    IF segments = << >> THEN << >>
    ELSE LET content == Strip(Head(segments).content)
         IN  IF content = << >> THEN ValidSegments(Tail(segments))
             ELSE << [content |-> content,
                      metadata |-> Head(segments).metadata] >>
                  \o ValidSegments(Tail(segments))

RECURSIVE SummarizeLoop_Retry(_, _, _, _, _)
\* SummarizeLoop that calls summarize_segment a second time for a segment
\* that failed
SummarizeLoop_Retry(segments, i, classification, scs, acc) ==
    IF i > Len(segments) THEN acc
    ELSE LET segment == segments[i]
             r == summarize_segment(segment.content, classification,
                                    segment.metadata, scs[i])
         IN  SummarizeLoop_Retry(segments, i + 1, classification, scs,
                 IF r.raised
                 THEN [acc EXCEPT
                         !.failed_segments = Append(@, segment.metadata.index),
                         !.calls = @ \o r.calls \o r.calls]
                 ELSE [acc EXCEPT
                         !.summaries = Append(@, r.summary),
                         !.calls = @ \o r.calls])

RECURSIVE SummarizeLoop(_, _, _, _, _)
\* lines 325-345: one summarize_segment per segment, in order; acc holds
\* summaries, failed_segments and the calls made
SummarizeLoop(segments, i, classification, scs, acc) ==
    IF i > Len(segments) THEN acc
    ELSE LET segment == segments[i]
             r == summarize_segment(segment.content, classification,
                                    segment.metadata, scs[i])
         IN  SummarizeLoop(segments, i + 1, classification, scs,
                 IF r.raised
                 THEN [acc EXCEPT
                         !.failed_segments = Append(@, segment.metadata.index),
                         !.calls = @ \o r.calls]
                 ELSE [acc EXCEPT
                         !.summaries = Append(@, r.summary),
                         !.calls = @ \o r.calls])

RECURSIVE SumWordCount(_)
SumWordCount(summaries) ==
    IF summaries = << >> THEN 0
    ELSE Head(summaries).metadata.word_count + SumWordCount(Tail(summaries))

\* the error of lines 386 and 394
SomeFailed(failed_segments) ==
    IF failed_segments = << >> THEN NoError
    ELSE Err("Some segments failed", failed_segments)

\* SummarizerResult that never makes the global pass
SummarizerResult_Individual(state, video_type, loop, gsc) ==
    IF loop.summaries = << >>
    THEN [state |-> [state EXCEPT
                       !.error = Err("Failed to generate summaries",
                                     loop.failed_segments),
                       !.summaries = << >>],
          calls |-> loop.calls]
    ELSE [state |-> [state EXCEPT
                       !.summaries = loop.summaries,
                       !.error = SomeFailed(loop.failed_segments)],
          calls |-> loop.calls]

\* SummarizerResult that makes the global pass for a single summary too
SummarizerResult_GlobalAlways(state, video_type, loop, gsc) ==
    LET g == create_global_summary(loop.summaries, video_type, gsc)
    IN  IF loop.summaries = << >>
        THEN [state |-> [state EXCEPT
                           !.error = Err("Failed to generate summaries",
                                         loop.failed_segments),
                           !.summaries = << >>],
              calls |-> loop.calls]
        ELSE IF g.error
             THEN [state |-> [state EXCEPT
                                !.summaries = loop.summaries,
                                !.error = Err("Failed to create global summary",
                                              << >>)],
                   calls |-> loop.calls \o g.calls]
             ELSE [state |-> [state EXCEPT
                                !.summaries = << g.summary >>,
                                !.error = SomeFailed(loop.failed_segments)],
                   calls |-> loop.calls \o g.calls]

\* SummarizerResult that returns no summaries when the global pass fails
SummarizerResult_DropOnGlobalError(state, video_type, loop, gsc) ==
    LET g == create_global_summary(loop.summaries, video_type, gsc)
    IN  IF loop.summaries = << >> \/ (Len(loop.summaries) > 1 /\ g.error)
        THEN [state |-> [state EXCEPT
                           !.error = IF loop.summaries = << >>
                                     THEN Err("Failed to generate summaries",
                                              loop.failed_segments)
                                     ELSE Err("Failed to create global summary",
                                              << >>),
                           !.summaries = << >>],
              calls |-> IF loop.summaries = << >> THEN loop.calls
                        ELSE loop.calls \o g.calls]
        ELSE IF Len(loop.summaries) > 1
             THEN [state |-> [state EXCEPT
                                !.summaries = << g.summary >>,
                                !.error = SomeFailed(loop.failed_segments)],
                   calls |-> loop.calls \o g.calls]
             ELSE [state |-> [state EXCEPT
                                !.summaries = loop.summaries,
                                !.error = SomeFailed(loop.failed_segments)],
                   calls |-> loop.calls]

\* lines 347-395: what the node returns once the loop has run
SummarizerResult(state, video_type, loop, gsc) ==
    LET summaries == loop.summaries
        failed_segments == loop.failed_segments
        g == create_global_summary(summaries, video_type, gsc)
        global_summary ==
            [g.summary EXCEPT
               !.metadata.word_count = SumWordCount(summaries),
               !.metadata.segment_count = Len(summaries),
               !.metadata.failed_segments = failed_segments]
    IN  IF summaries = << >>
        THEN [state |-> [state EXCEPT
                           !.error = Err("Failed to generate summaries",
                                         failed_segments),
                           !.summaries = << >>],
              calls |-> loop.calls]
        ELSE IF Len(summaries) > 1
             THEN IF g.error
                  THEN [state |-> [state EXCEPT
                                     !.summaries = summaries,
                                     !.error = Err("Failed to create global summary",
                                                   << >>)],
                        calls |-> loop.calls \o g.calls]
                  ELSE [state |-> [state EXCEPT
                                     !.summaries = << global_summary >>,
                                     !.error = SomeFailed(failed_segments)],
                        calls |-> loop.calls \o g.calls]
             ELSE [state |-> [state EXCEPT
                                !.summaries = summaries,
                                !.error = SomeFailed(failed_segments)],
                   calls |-> loop.calls]

\* summarizer_node that reports no error when no segment is valid
summarizer_node_SilentEmpty(state, scs, gsc) ==
    LET segments == InputSegments(state)
        valid_segments == ValidSegments(segments)
        classification == state.classification
        loop == SummarizeLoop(valid_segments, 1, classification, scs,
                              [summaries |-> << >>, failed_segments |-> << >>,
                               calls |-> << >>])
    IN  IF segments = << >>
        THEN [state |-> [state EXCEPT
                           !.error = Err("No valid content provided for summarization",
                                         << >>),
                           !.summaries = << >>],
              calls |-> << >>]
        ELSE IF valid_segments = << >>
             THEN [state |-> [state EXCEPT !.summaries = << >>],
                   calls |-> << >>]
             ELSE IF classification = None
                  THEN [state |-> [state EXCEPT
                                     !.error = Err("TypeError", << >>),
                                     !.summaries = << >>],
                        calls |-> << >>]
                  ELSE SummarizerResult(state, VideoType(classification),
                                        loop, gsc)

\* lines 241-402: the state after the node's update and the calls it made.
\* scs[i] is the providers' scenario for the i-th valid segment, gsc the
\* one for the global summary.
summarizer_node(state, scs, gsc) ==
    LET segments == InputSegments(state)
        valid_segments == ValidSegments(segments)
        classification == state.classification
        loop == SummarizeLoop(valid_segments, 1, classification, scs,
                              [summaries |-> << >>, failed_segments |-> << >>,
                               calls |-> << >>])
    IN  IF segments = << >>
        THEN [state |-> [state EXCEPT
                           !.error = Err("No valid content provided for summarization",
                                         << >>),
                           !.summaries = << >>],
              calls |-> << >>]
        ELSE IF valid_segments = << >>
             THEN [state |-> [state EXCEPT
                                !.error = Err("No valid segments available for summarization",
                                              << >>),
                                !.summaries = << >>],
                   calls |-> << >>]
             ELSE IF classification = None
                  THEN [state |-> [state EXCEPT
                                     !.error = Err("TypeError", << >>),
                                     !.summaries = << >>],
                        calls |-> << >>]
                  ELSE SummarizerResult(state, VideoType(classification),
                                        loop, gsc)

(***************************************************************************)
(* transcriber.py                                                          *)
(***************************************************************************)
Urls ==
    { "", "https://example.com/video",
      "https://www.youtube.com/watch?v=abc", "https://youtu.be/abc" }

\* "v=" in url
HasVParam(url) == url = "https://www.youtube.com/watch?v=abc"

\* "youtu.be/" in url
HasShortHost(url) == url = "https://youtu.be/abc"

\* lines 9-21: the video id, or the ValueError raised
get_video_id(url) ==
    IF url = "" THEN [raised |-> TRUE, value |-> "No URL provided"]
    ELSE IF HasVParam(url) \/ HasShortHost(url)
         THEN [raised |-> FALSE, value |-> "abc"]
         ELSE [raised |-> TRUE, value |-> "Invalid YouTube URL format"]

\* transcriber_node that drops the message of a failed fetch
transcriber_node_SilentFetch(state, fetch) ==
    LET video_url == state.video_url
        video_id == get_video_id(video_url)
    IN  IF video_url = ""
        THEN [state EXCEPT
                !.error = Err("No video URL provided in state", << >>),
                !.transcript = NoneText]
        ELSE IF video_id.raised
             THEN [state EXCEPT
                     !.error = Err(video_id.value, << >>),
                     !.transcript = NoneText]
             ELSE IF fetch.raises
                  THEN [state EXCEPT
                          !.error = NoError,
                          !.transcript = NoneText]
                  ELSE [state EXCEPT
                          !.transcript = fetch.text,
                          !.error = NoError]

\* transcriber_node whose update for a bad URL has no transcript key
transcriber_node_KeepTranscript(state, fetch) ==
    LET video_url == state.video_url
        video_id == get_video_id(video_url)
    IN  IF video_url = ""
        THEN [state EXCEPT
                !.error = Err("No video URL provided in state", << >>)]
        ELSE IF video_id.raised
             THEN [state EXCEPT
                     !.error = Err(video_id.value, << >>)]
             ELSE IF fetch.raises
                  THEN [state EXCEPT
                          !.error = Err("Failed to fetch transcript", << >>),
                          !.transcript = NoneText]
                  ELSE [state EXCEPT
                          !.transcript = fetch.text,
                          !.error = NoError]

\* lines 23-68; fetch is what YouTubeTranscriptApi.get_transcript does:
\* it raises, or gives the items whose texts joined by " " are fetch.text
transcriber_node(state, fetch) ==
    LET video_url == state.video_url
        video_id == get_video_id(video_url)
    IN  IF video_url = ""
        THEN [state EXCEPT
                !.error = Err("No video URL provided in state", << >>),
                !.transcript = NoneText]
        ELSE IF video_id.raised
             THEN [state EXCEPT
                     !.error = Err(video_id.value, << >>),
                     !.transcript = NoneText]
             ELSE IF fetch.raises
                  THEN [state EXCEPT
                          !.error = Err("Failed to fetch transcript", << >>),
                          !.transcript = NoneText]
                  ELSE [state EXCEPT
                          !.transcript = fetch.text,
                          !.error = NoError]

\* lines 36-52: the call of the transcript API, made once the URL gave a
\* video id
transcriber_calls(state, fetch) ==
    IF state.video_url = "" \/ get_video_id(state.video_url).raised
    THEN << >>
    ELSE Invoked("transcriber_node", "youtube", << >>, fetch.raises)

(***************************************************************************)
(* classifier.py                                                           *)
(***************************************************************************)
ValidTypes ==
    { "Tutorial/How-To", "Educational/Lecture", "Podcast/Discussion",
      "General Content" }

ValidConfidence == { "high", "medium", "low" }

Classification(type, confidence, reason) ==
    [type |-> type, confidence |-> confidence, reason |-> reason]

\* what a provider answers to the classification prompt: a JSON object with
\* the three required fields, a text that is no such object, the empty
\* string, or an exception
ClassOutputs ==
    { [kind |-> "json", type |-> "Tutorial/How-To", confidence |-> "high"],
      [kind |-> "json", type |-> "Vlog", confidence |-> "certain"],
      [kind |-> "garbage", type |-> NoneStr, confidence |-> NoneStr],
      [kind |-> "empty", type |-> NoneStr, confidence |-> NoneStr],
      [kind |-> "raise", type |-> NoneStr, confidence |-> NoneStr] }

ClassScenarios ==
    { sc \in [openai : ClassOutputs, ollama : ClassOutputs] :
        (sc.openai.kind = "json") => (sc.ollama.kind = "raise") }

\* validate_classification that keeps the type the model answered
validate_classification_KeepType(raw_output) ==
    IF raw_output.kind # "json" THEN None
    ELSE Classification(
             raw_output.type,
             IF raw_output.confidence \in ValidConfidence
             THEN raw_output.confidence ELSE "medium",
             "from model")

\* lines 27-67: the validated classification, or None
validate_classification(raw_output) ==
    IF raw_output.kind # "json" THEN None
    ELSE Classification(
             IF raw_output.type \in ValidTypes THEN raw_output.type
             ELSE "General Content",
             IF raw_output.confidence \in ValidConfidence
             THEN raw_output.confidence ELSE "medium",
             "from model")

\* the raw output handed to validate_classification, as the call log
\* keeps it
RawOutput(output) == << output.kind, output.type, output.confidence >>

\* the provider output a logged raw output stands for
OutputOf(raw) == [kind |-> raw[1], type |-> raw[2], confidence |-> raw[3]]

\* lines 107 and 128: the call of validate_classification on a provider's
\* output, logged with what it was given and whether it returned a
\* classification ("valid") or None ("invalid")
Validated(output) ==
    << Call("validate_classification",
            IF validate_classification(output) # None THEN "valid"
            ELSE "invalid",
            RawOutput(output)) >>

\* lines 100-114: the primary provider is invoked and, unless it raised,
\* its output is validated
PrimaryCalls(sc) ==
    Invoked("classify_content", "openai", << >>, sc.openai.kind = "raise")
    \o (IF sc.openai.kind = "raise" THEN << >> ELSE Validated(sc.openai))

\* lines 119-128: the secondary provider is invoked and, unless it raised
\* or answered nothing, its output is validated
SecondaryCalls(sc) ==
    Invoked("classify_content", "ollama", << >>, sc.ollama.kind = "raise")
    \o (IF sc.ollama.kind \in { "raise", "empty" } THEN << >>
        ELSE Validated(sc.ollama))

\* classify_content that gives up, without the secondary provider, when
\* the primary output fails validation
classify_content_NoFallbackOnInvalid(transcript, sc) ==
    LET first == PrimaryCalls(sc)
        both == first \o SecondaryCalls(sc)
    IN  IF sc.openai.kind # "raise"
        THEN IF validate_classification(sc.openai) # None
             THEN [classification |-> validate_classification(sc.openai),
                   calls |-> first]
             ELSE [classification |->
                       Classification("General Content", "low",
                           "Failed to get valid classification from models"),
                   calls |-> first]
        ELSE IF sc.ollama.kind \in { "raise", "empty" }
             THEN [classification |->
                       Classification("General Content", "low",
                                      "Classification error"),
                   calls |-> both]
             ELSE IF validate_classification(sc.ollama) # None
                  THEN [classification |-> validate_classification(sc.ollama),
                        calls |-> both]
                  ELSE [classification |->
                            Classification("General Content", "low",
                                "Failed to get valid classification from models"),
                        calls |-> both]

\* lines 69-150
classify_content(transcript, sc) ==
    LET first == PrimaryCalls(sc)
        both == first \o SecondaryCalls(sc)
    IN  IF sc.openai.kind # "raise"
           /\ validate_classification(sc.openai) # None
        THEN [classification |-> validate_classification(sc.openai),
              calls |-> first]
        ELSE IF sc.ollama.kind \in { "raise", "empty" }
             THEN [classification |->
                       Classification("General Content", "low",
                                      "Classification error"),
                   calls |-> both]
             ELSE IF validate_classification(sc.ollama) # None
                  THEN [classification |-> validate_classification(sc.ollama),
                        calls |-> both]
                  ELSE [classification |->
                            Classification("General Content", "low",
                                "Failed to get valid classification from models"),
                        calls |-> both]

\* classifier_node without the test for a missing transcript
classifier_node_NoCheck(state, sc) ==
    LET r == classify_content(state.transcript, sc)
    IN  [state |-> [state EXCEPT !.classification = r.classification],
         calls |-> r.calls]

\* lines 152-182
classifier_node(state, sc) ==
    LET r == classify_content(state.transcript, sc)
    IN  IF ~Truthy(state.transcript)
        THEN [state |-> [state EXCEPT
                           !.error = Err("No transcript provided", << >>),
                           !.classification =
                               Classification("General Content", "low",
                                              "No transcript provided")],
              calls |-> << >>]
        ELSE [state |-> [state EXCEPT !.classification = r.classification],
              calls |-> r.calls]

(***************************************************************************)
(* insights.py                                                             *)
(***************************************************************************)
Insights(content, video_type, num_segments, error) ==
    [content |-> content,
     metadata |-> [video_type |-> video_type, num_segments |-> num_segments,
                   error |-> error]]

\* lines 104-154: the insights dictionary, or raised
extract_insights(summaries, classification, sc) ==
    LET r == InvokeChecked("extract_insights", << >>, sc)
        entered == << Call("extract_insights", "call", << >>) >>
    IN  IF classification = None
        THEN [raised |-> TRUE, text |-> "TypeError",
              insights |-> Insights("", NoneStr, -1, "TypeError"),
              calls |-> entered
                        \o << Call("extract_insights", "raise", << >>) >>]
        ELSE IF r.raised
             THEN [raised |-> TRUE, text |-> r.text,
                   insights |-> Insights("", NoneStr, -1, r.text),
                   calls |-> entered \o r.calls
                             \o << Call("extract_insights", "raise", << >>) >>]
             ELSE [raised |-> FALSE, text |-> NoneStr,
                   insights |-> Insights(r.text, VideoType(classification),
                                         Len(summaries), NoneStr),
                   calls |-> entered \o r.calls
                             \o << Call("extract_insights", "return", << >>) >>]

\* lines 182-202: the summaries with a non-blank content
ValidSummaries(summaries) ==
    SelectSeq(summaries, LAMBDA summary : NonBlank(summary.content))

\* insights_node that returns no placeholder when there are no summaries
insights_node_NoPlaceholder(state, sc) ==
    LET summaries == state.summaries
        valid_summaries == ValidSummaries(summaries)
        r == extract_insights(valid_summaries, state.classification, sc)
    IN  IF summaries = << >>
        THEN [state |-> [state EXCEPT
                 !.error = Err("No valid summaries available for insights generation",
                               << >>)],
              calls |-> << >>]
        ELSE IF valid_summaries = << >>
             THEN [state |-> [state EXCEPT
                      !.error = Err("No valid summaries available for insights generation",
                                    << >>),
                      !.generated_insights =
                          Insights("No insights available due to invalid summaries",
                                   NoneStr, -1,
                                   "No valid summaries after validation")],
                   calls |-> << >>]
             ELSE IF r.raised
                  THEN [state |-> [state EXCEPT
                           !.error = Err(r.text, << >>),
                           !.generated_insights =
                               Insights("Failed to generate insights", NoneStr,
                                        -1, r.text)],
                        calls |-> r.calls]
                  ELSE IF ~NonBlank(r.insights.content)
                       THEN [state |-> [state EXCEPT
                                !.error = Err("Failed to generate valid insights",
                                              << >>),
                                !.generated_insights =
                                    Insights("Failed to generate meaningful insights",
                                             NoneStr, -1,
                                             "Invalid insights format")],
                             calls |-> r.calls]
                       ELSE [state |-> [state EXCEPT
                                !.generated_insights = r.insights,
                                !.error = NoError],
                             calls |-> r.calls]

\* lines 156-265
insights_node(state, sc) ==
    LET summaries == state.summaries
        valid_summaries == ValidSummaries(summaries)
        r == extract_insights(valid_summaries, state.classification, sc)
    IN  IF summaries = << >>
        THEN [state |-> [state EXCEPT
                 !.error = Err("No valid summaries available for insights generation",
                               << >>),
                 !.generated_insights =
                     Insights("No insights available due to missing summaries",
                              NoneStr, -1, "Invalid summaries format")],
              calls |-> << >>]
        ELSE IF valid_summaries = << >>
             THEN [state |-> [state EXCEPT
                      !.error = Err("No valid summaries available for insights generation",
                                    << >>),
                      !.generated_insights =
                          Insights("No insights available due to invalid summaries",
                                   NoneStr, -1,
                                   "No valid summaries after validation")],
                   calls |-> << >>]
             ELSE IF r.raised
                  THEN [state |-> [state EXCEPT
                           !.error = Err(r.text, << >>),
                           !.generated_insights =
                               Insights("Failed to generate insights", NoneStr,
                                        -1, r.text)],
                        calls |-> r.calls]
                  ELSE IF ~NonBlank(r.insights.content)
                       THEN [state |-> [state EXCEPT
                                !.error = Err("Failed to generate valid insights",
                                              << >>),
                                !.generated_insights =
                                    Insights("Failed to generate meaningful insights",
                                             NoneStr, -1,
                                             "Invalid insights format")],
                             calls |-> r.calls]
                       ELSE [state |-> [state EXCEPT
                                !.generated_insights = r.insights,
                                !.error = NoError],
                             calls |-> r.calls]

(***************************************************************************)
(* pipeline.py: the graph of create_pipeline and process_video             *)
(***************************************************************************)
\* lines 96-115
initial_state(url) ==
    [video_url |-> url,
     error |-> NoError,
     transcript |-> NoneText,
     classification |-> None,
     segmentation_info |-> None,
     needs_segmentation |-> FALSE,
     segments |-> NoneSegments,
     summaries |-> << >>,
     generated_insights |-> None]

\* lines 52-59
route_to_summarizer(state) ==
    IF state.needs_segmentation THEN "segment_summarize" ELSE "full_summarize"

\* lines 61-68: the node each routing key leads to
ConditionalTargets ==
    [segment_summarize |-> "summarizer", full_summarize |-> "summarizer"]

\* a graph in which the single-pass branch goes straight to the insights
Successor_SkipSummarizer(node, state) ==
    CASE node = "transcriber" -> "classifier"
      [] node = "classifier" -> "segmenter"
      [] node = "segmenter" ->
            IF route_to_summarizer(state) = "full_summarize"
            THEN "generate_insights" ELSE "summarizer"
      [] node = "summarizer" -> "generate_insights"
      [] node = "generate_insights" -> "END"

\* lines 47-73: the node run after `node`, given the state it left
Successor(node, state) ==
    CASE node = "transcriber" -> "classifier"
      [] node = "classifier" -> "segmenter"
      [] node = "segmenter" -> ConditionalTargets[route_to_summarizer(state)]
      [] node = "summarizer" -> "generate_insights"
      [] node = "generate_insights" -> "END"

\* lines 127-138: the dictionary process_video returns
FinalResult(state) ==
    [video_url |-> state.video_url,
     error |-> state.error,
     transcript |-> state.transcript,
     classification |-> state.classification,
     segmentation_info |-> state.segmentation_info,
     needs_segmentation |-> state.needs_segmentation,
     segments |-> state.segments,
     summaries |-> state.summaries,
     insights |-> state.generated_insights]

(***************************************************************************)
(* Transcripts of the checked family: up to MaxPieces word runs (none: the *)
(* empty transcript), joined by separators and closed by an ending.        *)
(***************************************************************************)
MaxPieces == 3

RunLengths == {1, 1000, 1500, 2500}

Separators ==
    { << DOT, SP >>, << DOT, NL, NL >>, << NL, NL >>,
      << SP, BUT, SP >>, << SP, NOW, SP >> }

Endings == { << >>, << DOT >>, << SP, BUT >> }

RECURSIVE Body(_, _, _)
\* the runs of lengths rs[1..n] with the separator ss[i] after the i-th
Body(rs, ss, n) ==
    IF n = 0 THEN << >>
    ELSE IF n = 1 THEN << W(rs[1]) >>
    ELSE Body(rs, ss, n - 1) \o ss[n - 1] \o << W(rs[n]) >>

\* the transcripts of n runs over the given lengths and separators
Bodies(n, lengths, separators) ==
    { Body(rs, ss, n) : rs \in [1..n -> lengths],
                        ss \in [1..(n - 1) -> separators] }

\* what the transcript API can return in the pipeline runs: the empty
\* transcript, a blank one, and up to PipelinePieces sentences
PipelinePieces == 3

PipelineLengths == { 1, 1500, 2500 }

PipelineTranscripts ==
    { << >>, << SP >> }
    \cup UNION { Bodies(n, PipelineLengths, { << DOT, SP >> }) :
                  n \in 1..PipelinePieces }

Fetches ==
    { [raises |-> TRUE, text |-> << >>] }
    \cup { [raises |-> FALSE, text |-> t] : t \in PipelineTranscripts }

(***************************************************************************)
(* webpage.py: WebpageSummarizer.  A URL is a string; a markdown text is   *)
(* the sequence of its lines (the empty text is the one empty line).       *)
(***************************************************************************)
WebUrls ==
    { "", "http://", "example.com", "https://example.com",
      "http://example.com/a" }

\* url.startswith(('http://', 'https://'))
StartsWithScheme(url) ==
    url \in { "http://", "https://", "https://example.com",
              "http://example.com/a" }

\* urlparse(url).netloc of a URL that starts with a scheme
Netloc(url) ==
    IF url \in { "http://", "https://" } THEN "" ELSE "example.com"

\* what session.head(url) followed by raise_for_status() does
HeadOutcomes == { "ok", "HTTPError", "ConnectionError" }

\* an exception of the WebpageError hierarchy (lines 15-33), or no exception
WebpageErrors == { "URLError", "ScrapingError", "SummarizationError", "ConfigError" }

Raised(class, msg) == [class |-> class, msg |-> msg]

NoException == Raised(NoneStr, NoneStr)

\* lines 59-89: the normalized URL, or the URLError raised
validate_url(url, head) ==
    LET normalized == IF StartsWithScheme(url) THEN url ELSE "https://" \o url
    IN  IF Netloc(normalized) = ""
        THEN [raised |-> Raised("URLError", "Invalid URL format"),
              value |-> NoneStr]
        ELSE IF head # "ok"
             THEN [raised |-> Raised("URLError", "Failed to access URL"),
                   value |-> NoneStr]
             ELSE [raised |-> NoException, value |-> normalized]

\* the lines a scraped page can hold: text, an empty line, a UI element
\* and a footer line
PageLines == { "alpha", "beta", "", "Sign up", "Footer" }

MaxLines == 2

Pages == UNION { [1..n -> PageLines] : n \in 1..MaxLines }

\* the tests of lines 161-165 and 176-178 on the lines of PageLines
IsUiElement(line) == line = "Sign up"

IsFooter(line) == line = "Footer"

RECURSIVE CleanLines(_, _, _, _, _)
\* lines 155-239: the loop over the lines
CleanLines(lines, i, in_footer, previous_line, cleaned_lines) ==
    IF i > Len(lines) THEN cleaned_lines
    ELSE LET line == lines[i]
         IN  IF line = "" \/ IsUiElement(line)
             THEN CleanLines(lines, i + 1, in_footer, previous_line,
                             cleaned_lines)
             ELSE IF IsFooter(line)
                  THEN CleanLines(lines, i + 1, TRUE, previous_line,
                                  cleaned_lines)
                  ELSE IF in_footer \/ line = previous_line
                       THEN CleanLines(lines, i + 1, in_footer, previous_line,
                                       cleaned_lines)
                       ELSE CleanLines(lines, i + 1, in_footer, line,
                                       Append(cleaned_lines, line))

\* lines 133-247: the cleaned text ('\n'.join of the kept lines; the empty
\* string is the one empty line)
clean_text(text) ==
    LET cleaned_lines == CleanLines(text, 1, FALSE, "", << >>)
    IN  IF text = << "" >> \/ cleaned_lines = << >> THEN << "" >>
        ELSE cleaned_lines

\* what scraper.scrape_url gives: an exception, no result, or a result
\* with the markdown of a page
ScrapeOutcomes ==
    { [kind |-> "raise", markdown |-> << "" >>],
      [kind |-> "none", markdown |-> << "" >>] }
    \cup { [kind |-> "result", markdown |-> page] : page \in Pages }

\* lines 91-131: the cleaned content, or the ScrapingError raised
scrape_content(url, scrape) ==
    IF scrape.kind = "raise"
    THEN [raised |-> Raised("ScrapingError", "FireCrawl extraction failed"),
          value |-> << "" >>]
    ELSE IF scrape.kind = "none" \/ scrape.markdown = << "" >>
         THEN [raised |-> Raised("ScrapingError", "FireCrawl returned empty content"),
               value |-> << "" >>]
         ELSE [raised |-> NoException, value |-> clean_text(scrape.markdown)]

\* what llm.invoke gives
LlmOutcomes == { "text", " text ", "", RAISE }

\* lines 249-274: the stripped summary, or the SummarizationError raised
generate_summary(text, llm) ==
    IF llm = RAISE
    THEN [raised |-> Raised("SummarizationError", "Failed to generate summary"),
          value |-> NoneStr]
    ELSE [raised |-> NoException,
          value |-> IF llm = " text " THEN "text" ELSE llm]

\* len(line) of a line of PageLines
LineLength(line) ==
    CASE line = "alpha" -> 5
      [] line = "beta" -> 4
      [] line = "" -> 0
      [] line = "Sign up" -> 7
      [] line = "Footer" -> 6

RECURSIVE TextLength(_)
\* len(content): the lines and the newlines between them
TextLength(content) ==
    IF Len(content) = 1 THEN LineLength(content[1])
    ELSE LineLength(content[1]) + 1 + TextLength(Tail(content))

\* lines 276-292
get_metadata(url, content) ==
    [url |-> url,
     length |-> TextLength(content),
     word_count |-> Len(SelectSeq(content, LAMBDA line : line # ""))]

\* the local variables of process_url (lines 294-331).  failed is a
\* history field: the exception a step raised; raised is the exception
\* that leaves process_url
WebStart(url) ==
    [pc |-> "validate_url",
     url |-> url,
     validated_url |-> NoneStr,
     content |-> << "" >>,
     summary |-> NoneStr,
     failed |-> NoException,
     raised |-> NoException,
     result |-> None]

(***************************************************************************)
(* State.  seg: the local variables of a running segment_transcript.       *)
(* pc: the node the graph runs next ("END": pipeline.invoke returned,      *)
(* "returned": process_video returned); state: the PipelineState; trace:   *)
(* the nodes run so far; calls: the call log of the node run last; route:  *)
(* the key route_to_summarizer returned; result: what process_video        *)
(* returned; web: the local variables of a running                         *)
(* WebpageSummarizer.process_url.                                          *)
(***************************************************************************)
VARIABLES seg, pc, state, trace, calls, route, result, web

vars == << seg, pc, state, trace, calls, route, result, web >>

pipevars == << pc, state, trace, calls, route, result >>

(***************************************************************************)
(* Specification SegSpec: segment_transcript called on any transcript of   *)
(* the family, one loop iteration per step.                                *)
(***************************************************************************)
SegInit ==
    /\ \E n \in 0..MaxPieces :
          \E rs \in [1..n -> RunLengths], ss \in [1..(n - 1) -> Separators],
             e \in Endings :
             seg = SegStart(Body(rs, ss, n) \o e)
    /\ pc = "idle"
    /\ state = initial_state("")
    /\ trace = << >>
    /\ calls = << >>
    /\ route = NoneStr
    /\ result = None
    /\ web = WebStart("")

\* a pass that ends with a natural (or sentence) break
SegNatural ==
    /\ seg.pc = "loop"
    /\ SegIter(seg).pc = "loop"
    /\ seg' = SegIter(seg)
    /\ UNCHANGED << pipevars, web >>

\* a pass that takes the forced break and returns
SegForced ==
    /\ seg.pc = "loop"
    /\ SegIter(seg).forced
    /\ seg' = SegIter(seg)
    /\ UNCHANGED << pipevars, web >>

\* the while condition fails: return segments
SegReturn ==
    /\ seg.pc = "loop"
    /\ ~(seg.current_position < Len(seg.transcript))
    /\ seg' = SegIter(seg)
    /\ UNCHANGED << pipevars, web >>

SegNext == SegNatural \/ SegForced \/ SegReturn

SegSpec == SegInit /\ [][SegNext]_vars

(***************************************************************************)
(* Specification Spec: process_video(url), one graph node per step.        *)
(***************************************************************************)
Init ==
    /\ seg = SegStart(<< >>)
    /\ pc = "transcriber"
    /\ state \in { initial_state(url) : url \in Urls }
    /\ trace = << >>
    /\ calls = << >>
    /\ route = NoneStr
    /\ result = None
    /\ web = WebStart("")

Transcriber ==
    /\ pc = "transcriber"
    /\ \E fetch \in Fetches :
          /\ state' = transcriber_node(state, fetch)
          /\ calls' = transcriber_calls(state, fetch)
          /\ pc' = Successor("transcriber", state')
    /\ trace' = Append(trace, "transcriber")
    /\ UNCHANGED << seg, route, result, web >>

Classifier ==
    /\ pc = "classifier"
    /\ \E sc \in ClassScenarios :
          /\ state' = classifier_node(state, sc).state
          /\ calls' = classifier_node(state, sc).calls
          /\ pc' = Successor("classifier", state')
    /\ trace' = Append(trace, "classifier")
    /\ UNCHANGED << seg, route, result, web >>

Segmenter ==
    /\ pc = "segmenter"
    /\ state' = segmenter_node(state)
    /\ route' = route_to_summarizer(state')
    /\ pc' = Successor("segmenter", state')
    /\ trace' = Append(trace, "segmenter")
    /\ calls' = << >>
    /\ UNCHANGED << seg, result, web >>

\* the scenarios of the global-summary prompt: it is only built when more
\* than one segment was summarized
GlobalScenarios(st) ==
    IF Len(ValidSegments(InputSegments(st))) > 1 THEN Scenarios
    ELSE { [openai |-> "text", ollama |-> "text"] }

Summarizer ==
    /\ pc = "summarizer"
    /\ \E scs \in [1..Len(ValidSegments(InputSegments(state))) -> Scenarios],
          gsc \in GlobalScenarios(state) :
          /\ state' = summarizer_node(state, scs, gsc).state
          /\ calls' = summarizer_node(state, scs, gsc).calls
          /\ pc' = Successor("summarizer", state')
    /\ trace' = Append(trace, "summarizer")
    /\ UNCHANGED << seg, route, result, web >>

GenerateInsights ==
    /\ pc = "generate_insights"
    /\ \E sc \in Scenarios :
          /\ state' = insights_node(state, sc).state
          /\ calls' = insights_node(state, sc).calls
          /\ pc' = Successor("generate_insights", state')
    /\ trace' = Append(trace, "generate_insights")
    /\ UNCHANGED << seg, route, result, web >>

\* pipeline.invoke has returned: process_video returns the result
Return ==
    /\ pc = "END"
    /\ result' = FinalResult(state)
    /\ pc' = "returned"
    /\ UNCHANGED << seg, state, trace, calls, route, web >>

Next ==
    \/ Transcriber
    \/ Classifier
    \/ Segmenter
    \/ Summarizer
    \/ GenerateInsights
    \/ Return

Spec == Init /\ [][Next]_vars

(***************************************************************************)
(* Specification StageSpec: one stage function called on any input state   *)
(* (a PipelineState whose keys hold values the pipeline would not give     *)
(* that stage: no transcript, no classification, no or blank segments,     *)
(* no or blank summaries).  No stage reads the error key, so the input     *)
(* state holds error None and the error after the call is the update's.    *)
(***************************************************************************)
StageTranscripts ==
    { NoneText, << >>, << SP >>, << W(1) >>,
      << W(2500), DOT, SP, W(2500) >> }

StageClassifications ==
    { None, Classification("Tutorial/How-To", "high", "from model") }

StageSegments ==
    { NoneSegments, << >>,
      << [content |-> << SP >>, metadata |-> [index |-> 0, word_count |-> 0]] >>,
      << [content |-> << W(1) >>, metadata |-> [index |-> 0, word_count |-> 1]],
         [content |-> << SP >>, metadata |-> [index |-> 1, word_count |-> 0]],
         [content |-> << W(1) >>, metadata |-> [index |-> 2, word_count |-> 1]] >> }

StageSummaries ==
    { << >>,
      << Summary(" ", "segment_summary", "General Content", 0, 1, -1, << >>) >>,
      << Summary("text", "segment_summary", "General Content", 0, 1, -1, << >>),
         Summary("", "segment_summary", "General Content", 1, 1, -1, << >>) >> }

StageFetches ==
    { [raises |-> TRUE, text |-> << >>], [raises |-> FALSE, text |-> << >>],
      [raises |-> FALSE, text |-> << W(1) >>] }

StageInit ==
    /\ seg = SegStart(<< >>)
    /\ pc = "stage"
    /\ \E url \in Urls, transcript \in StageTranscripts,
          classification \in StageClassifications,
          segments \in StageSegments, summaries \in StageSummaries :
          state = [initial_state(url) EXCEPT
                     !.transcript = transcript,
                     !.classification = classification,
                     !.segments = segments,
                     !.summaries = summaries]
    /\ trace = << >>
    /\ calls = << >>
    /\ route = NoneStr
    /\ result = None
    /\ web = WebStart("")

StageTranscriber ==
    /\ pc = "stage"
    /\ \E fetch \in StageFetches :
          /\ state' = transcriber_node(state, fetch)
          /\ calls' = transcriber_calls(state, fetch)
    /\ trace' = << "transcriber" >>
    /\ pc' = "stage done"
    /\ UNCHANGED << seg, route, result, web >>

StageClassifier ==
    /\ pc = "stage"
    /\ \E sc \in ClassScenarios :
          /\ state' = classifier_node(state, sc).state
          /\ calls' = classifier_node(state, sc).calls
    /\ trace' = << "classifier" >>
    /\ pc' = "stage done"
    /\ UNCHANGED << seg, route, result, web >>

StageSegmenter ==
    /\ pc = "stage"
    /\ state' = segmenter_node(state)
    /\ calls' = << >>
    /\ trace' = << "segmenter" >>
    /\ pc' = "stage done"
    /\ UNCHANGED << seg, route, result, web >>

StageSummarizer ==
    /\ pc = "stage"
    /\ \E scs \in [1..Len(ValidSegments(InputSegments(state))) -> Scenarios],
          gsc \in GlobalScenarios(state) :
          /\ state' = summarizer_node(state, scs, gsc).state
          /\ calls' = summarizer_node(state, scs, gsc).calls
    /\ trace' = << "summarizer" >>
    /\ pc' = "stage done"
    /\ UNCHANGED << seg, route, result, web >>

StageInsights ==
    /\ pc = "stage"
    /\ \E sc \in Scenarios :
          /\ state' = insights_node(state, sc).state
          /\ calls' = insights_node(state, sc).calls
    /\ trace' = << "generate_insights" >>
    /\ pc' = "stage done"
    /\ UNCHANGED << seg, route, result, web >>

StageNext ==
    \/ StageTranscriber
    \/ StageClassifier
    \/ StageSegmenter
    \/ StageSummarizer
    \/ StageInsights

StageSpec == StageInit /\ [][StageNext]_vars

(***************************************************************************)
(* Specification WebSpec: WebpageSummarizer.process_url(url), one step of  *)
(* its try block per action.                                               *)
(***************************************************************************)
WebInit ==
    /\ seg = SegStart(<< >>)
    /\ pc = "idle"
    /\ state = initial_state("")
    /\ trace = << >>
    /\ calls = << >>
    /\ route = NoneStr
    /\ result = None
    /\ \E url \in WebUrls : web = WebStart(url)

\* line 309
WebValidate ==
    /\ web.pc = "validate_url"
    /\ \E head \in HeadOutcomes :
          LET r == validate_url(web.url, head)
          IN  web' = IF r.raised # NoException
                     THEN [web EXCEPT !.failed = r.raised, !.pc = "except"]
                     ELSE [web EXCEPT !.validated_url = r.value,
                                      !.pc = "scrape_content"]
    /\ UNCHANGED << seg, pipevars >>

\* line 312
WebScrape ==
    /\ web.pc = "scrape_content"
    /\ \E scrape \in ScrapeOutcomes :
          LET r == scrape_content(web.validated_url, scrape)
          IN  web' = IF r.raised # NoException
                     THEN [web EXCEPT !.failed = r.raised, !.pc = "except"]
                     ELSE [web EXCEPT !.content = r.value,
                                      !.pc = "generate_summary"]
    /\ UNCHANGED << seg, pipevars >>

\* line 315
WebSummarize ==
    /\ web.pc = "generate_summary"
    /\ \E llm \in LlmOutcomes :
          LET r == generate_summary(web.content, llm)
          IN  web' = IF r.raised # NoException
                     THEN [web EXCEPT !.failed = r.raised, !.pc = "except"]
                     ELSE [web EXCEPT !.summary = r.value,
                                      !.pc = "get_metadata"]
    /\ UNCHANGED << seg, pipevars >>

\* lines 318-324
WebReturn ==
    /\ web.pc = "get_metadata"
    /\ web' = [web EXCEPT
                 !.result = [status |-> "success", summary |-> web.summary,
                             error |-> NoneStr,
                             metadata |-> get_metadata(web.validated_url,
                                                       web.content)],
                 !.pc = "returned"]
    /\ UNCHANGED << seg, pipevars >>

\* lines 326-331: except WebpageError
WebExcept ==
    /\ web.pc = "except"
    /\ web' = IF web.failed.class \in WebpageErrors
              THEN [web EXCEPT
                      !.result = [status |-> "error", summary |-> NoneStr,
                                  error |-> web.failed.msg,
                                  metadata |-> [url |-> web.url, length |-> -1,
                                                word_count |-> -1]],
                      !.pc = "returned"]
              ELSE [web EXCEPT !.raised = web.failed, !.pc = "raised"]
    /\ UNCHANGED << seg, pipevars >>

WebNext ==
    \/ WebValidate
    \/ WebScrape
    \/ WebSummarize
    \/ WebReturn
    \/ WebExcept

WebSpec == WebInit /\ [][WebNext]_vars

(***************************************************************************)
(* Properties of segment_transcript (SegSpec)                              *)
(***************************************************************************)
RECURSIVE MergeRuns(_)
\* neighbouring word runs separated by one space are one run
MergeRuns(text) ==
    IF Len(text) < 3 THEN text
    ELSE IF text[1].k = "w" /\ text[2].k = "sp" /\ text[3].k = "w"
         THEN MergeRuns(<< W(text[1].n + text[3].n) >>
                        \o SubSeq(text, 4, Len(text)))
         ELSE << text[1] >> \o MergeRuns(Tail(text))

RECURSIVE CollapseSpaces(_)
\* every whitespace run becomes one space
CollapseSpaces(text) ==
    IF text = << >> THEN << >>
    ELSE IF IsSpace(Head(text))
         THEN << SP >> \o CollapseSpaces(SubSeq(text, 1 + SpaceRun(text, 0),
                                                Len(text)))
         ELSE << Head(text) >> \o CollapseSpaces(Tail(text))

\* whitespace normalization
Normalized(text) == MergeRuns(CollapseSpaces(Strip(text)))

RECURSIVE JoinContents(_)
\* the segments' contents in order, separated by whitespace
JoinContents(segments) ==
    IF segments = << >> THEN << >>
    ELSE IF Len(segments) = 1 THEN segments[1].content
         ELSE segments[1].content \o << SP >> \o JoinContents(Tail(segments))

\* C1: when segment_transcript(T) returns, the contents of its segments,
\* concatenated in order, are T up to whitespace normalization (no word
\* dropped, duplicated or split).
C1_Reconstructs ==
    seg.pc = "done" =>
        Normalized(JoinContents(seg.segments)) = Normalized(seg.transcript)

\* C2: every segment has at most SEGMENT_SIZE.MAX words, unless it is an
\* unbroken run of text that holds no break point.
C2_AtMostMax ==
    \A i \in DOMAIN seg.segments :
        \/ seg.segments[i].word_count <= SEGMENT_SIZE.MAX
        \/ find_natural_breaks(seg.segments[i].content) = << >>

\* C2 witness: a transcript of more than MAX words was cut, and a segment of
\* exactly MAX words came out of a natural break.
C2_Witness ==
    /\ seg.pc = "done"
    /\ count_words(seg.transcript) > SEGMENT_SIZE.MAX
    /\ Len(seg.segments) >= 2
    /\ seg.segments[1].word_count = SEGMENT_SIZE.MAX

\* C3: every segment but the last has at least SEGMENT_SIZE.MIN words.
C3_AtLeastMin ==
    seg.pc = "done" =>
        \A i \in DOMAIN seg.segments :
            i < Len(seg.segments) =>
                seg.segments[i].word_count >= SEGMENT_SIZE.MIN

StrengthRank(strength) ==
    IF strength = "strong" THEN 3 ELSE IF strength = "medium" THEN 2 ELSE 1

\* the breaks of the list that lie ahead and would give a segment within
\* the size limits
Candidates(st) ==
    { i \in DOMAIN st.breaks :
        /\ st.breaks[i].position > st.current_position
        /\ LET wc == count_words(Strip(Slice(st.transcript, st.current_position,
                                             st.breaks[i].position)))
           IN  wc >= SEGMENT_SIZE.MIN /\ wc <= SEGMENT_SIZE.MAX }

\* C6: when several candidate breaks would give a segment within the size
\* limits, the pass splits at one of the strongest class among them.
C6_StrongestFirst ==
    [][ (seg.pc = "loop" /\ Cardinality(Candidates(seg)) > 1
         /\ seg'.suitable_break # None)
        => \A i \in Candidates(seg) :
              StrengthRank(seg'.suitable_break.strength)
                  >= StrengthRank(seg.breaks[i].strength) ]_vars

\* C7: the segments are cut from spans that follow one another without
\* overlap, and their indices are 0, 1, ..., n-1 in list order.
C7_OrderedSpans ==
    /\ Len(seg.spans) = Len(seg.segments)
    /\ \A i \in DOMAIN seg.segments :
          /\ seg.segments[i].index = i - 1
          /\ seg.spans[i].from <= seg.spans[i].to
          /\ i > 1 => seg.spans[i].from >= seg.spans[i - 1].to

\* C7 witness: three segments were returned.
C7_Witness ==
    /\ seg.pc = "done"
    /\ Len(seg.segments) >= 3

\* C17: segment_transcript terminates: current_position never passes the
\* end of the transcript, every pass that stays in the loop moves it
\* strictly forward (so the passes are at most as many as the transcript
\* is long), and the loop is left when current_position has reached the
\* end of the transcript or the forced break is taken.
C17_Terminates ==
    /\ [](seg.current_position <= Len(seg.transcript))
    /\ [][ (seg.pc = "loop" /\ seg'.pc = "loop") =>
              seg'.current_position > seg.current_position ]_vars
    /\ [][ (seg.pc = "loop"
            /\ (seg.current_position >= Len(seg.transcript) \/ seg'.forced)) =>
              seg'.pc = "done" ]_vars

\* C17 witness: a call went twice through the loop, moving forward each
\* time, and left it by the forced break.
C17_Witness ==
    /\ seg.pc = "done"
    /\ seg.forced
    /\ Len(seg.spans) >= 3
    /\ seg.spans[2].from > 0
    /\ seg.current_position > seg.spans[2].from

\* the words of the segments returned so far
RECURSIVE SegmentWords(_)
SegmentWords(segments) ==
    IF segments = << >> THEN 0
    ELSE Head(segments).word_count + SegmentWords(Tail(segments))

\* C18: the forced path ends the call: once the forced break is taken the
\* loop is left, so the segment it produced is the last one returned and
\* no segment is produced from the text after a forced truncation.
C18_ForcedIsLast ==
    /\ [](seg.forced => seg.pc = "done")
    /\ [][seg.forced => seg'.segments = seg.segments]_vars

\* C18 witness: the forced path truncated a text of more than MAX words
\* after an earlier segment, and the call returned without the rest.
C18_Witness ==
    /\ seg.forced
    /\ Len(seg.segments) >= 2
    /\ seg.segments[Len(seg.segments)].word_count = SEGMENT_SIZE.MAX
    /\ SegmentWords(seg.segments) < count_words(seg.transcript)

(***************************************************************************)
(* Properties of the pipeline (Spec)                                       *)
(***************************************************************************)
\* the segmenter node has run on a non-empty transcript
Segmented == Len(trace) >= 3 /\ Truthy(state.transcript)

\* C4: should_segment gives SHORT exactly when w <= 1500, MEDIUM exactly
\* when 1500 < w <= 4000 and LONG exactly when w > 4000, where w is the
\* word count of the transcript; word_count is w and threshold_used is
\* THRESHOLDS[category].
C4_Categories ==
    Segmented =>
        LET info == state.segmentation_info
            w == count_words(state.transcript)
        IN  /\ info.word_count = w
            /\ (info.category = "SHORT") <=> (w <= 1500)
            /\ (info.category = "MEDIUM") <=> (1500 < w /\ w <= 4000)
            /\ (info.category = "LONG") <=> (w > 4000)
            /\ info.threshold_used = THRESHOLDS[info.category]

\* C4 witness: a transcript of exactly 1500 words was categorized.
C4_Witness ==
    /\ Segmented
    /\ state.segmentation_info.word_count = 1500
    /\ state.segmentation_info.category = "SHORT"

\* C5: for a non-empty transcript segmenter_node segments (with
\* segment_transcript) exactly when the transcript has more than 4000
\* words, never for at most 1500 words; when it does not segment it
\* returns the one segment of index 0 holding the unmodified transcript;
\* the route is segment_summarize exactly when needs_segmentation is True.
C5_SegmentsOnlyLong ==
    Segmented =>
        LET w == count_words(state.transcript)
        IN  /\ state.needs_segmentation <=> (w > 4000)
            /\ (w <= 1500) => ~state.needs_segmentation
            /\ state.needs_segmentation =>
                  state.segments
                      = SegmentsData(segment_transcript(state.transcript))
            /\ ~state.needs_segmentation =>
                  /\ Len(state.segments) = 1
                  /\ state.segments[1].content = state.transcript
                  /\ state.segments[1].metadata.index = 0
            /\ (route = "segment_summarize") <=> state.needs_segmentation

\* C5 witness: a long transcript was cut into several segments and routed
\* to the segment-wise branch.
C5_Witness ==
    /\ Segmented
    /\ state.needs_segmentation
    /\ Len(state.segments) >= 2
    /\ route = "segment_summarize"

StageOrder ==
    << "transcriber", "classifier", "segmenter", "summarizer",
       "generate_insights" >>

\* C8: the stages run in the order transcriber, classifier, segmenter,
\* summarizer, generate_insights, each once, whatever the errors and the
\* routing branch, and the run ends after the last.
C8_FixedOrder ==
    /\ Len(trace) <= Len(StageOrder)
    /\ trace = SubSeq(StageOrder, 1, Len(trace))
    /\ (pc \in { "END", "returned" }) <=> (trace = StageOrder)
    /\ (pc \notin { "END", "returned" }) => (pc = StageOrder[Len(trace) + 1])

\* C8 witness: a run that took the single-pass branch and reported an error
\* has returned.
C8_Witness ==
    /\ pc = "returned"
    /\ route = "full_summarize"
    /\ result.error # NoError
    /\ result.transcript # NoneText

\* the entries of the call log that satisfy Test
Entries(Test(_)) == { i \in DOMAIN calls : Test(calls[i]) }

SegmentCalls ==
    Entries(LAMBDA c : c.fn = "summarize_segment" /\ c.provider = "call")

SegmentReturns ==
    Entries(LAMBDA c : c.fn = "summarize_segment" /\ c.provider = "return")

GlobalCalls ==
    Entries(LAMBDA c : c.fn = "create_global_summary" /\ c.provider = "call")

GlobalReturns ==
    Entries(LAMBDA c : c.fn = "create_global_summary" /\ c.provider = "return")

\* the summarizer node has just run
Summarized == pc = "generate_insights"

C10_Original ==
    (Summarized /\ ~state.needs_segmentation /\ Truthy(state.transcript)) =>
        /\ Cardinality(SegmentCalls) = 1
        /\ \A i \in SegmentCalls : calls[i].input = Strip(state.transcript)
        /\ GlobalCalls = {}
        /\ Len(state.summaries) = 1
        /\ state.summaries[1].metadata.type = "segment_summary"

\* C10 amended: with needs_segmentation False and a non-empty transcript
\* there is no global-summary call and at most one per-segment
\* summarization, exactly one unless the transcript is blank, over the
\* complete (stripped) transcript; when it succeeds its summary is the one
\* summary returned, and otherwise the list is empty and error is set.
C10_SinglePass ==
    (Summarized /\ ~state.needs_segmentation /\ Truthy(state.transcript)) =>
        /\ GlobalCalls = {}
        /\ Cardinality(SegmentCalls)
              = (IF Strip(state.transcript) = << >> THEN 0 ELSE 1)
        /\ \A i \in SegmentCalls : calls[i].input = Strip(state.transcript)
        /\ SegmentReturns # {} =>
              /\ Len(state.summaries) = 1
              /\ state.summaries[1].metadata.type = "segment_summary"
              /\ state.summaries[1].metadata.segment_index = 0
              /\ state.error = NoError
        /\ SegmentReturns = {} =>
              /\ state.summaries = << >>
              /\ state.error # NoError

\* C10 witness: a medium-length transcript was summarized in one pass by
\* the secondary provider.
C10_Witness ==
    /\ Summarized
    /\ ~state.needs_segmentation
    /\ state.segmentation_info # None
    /\ state.segmentation_info.category = "MEDIUM"
    /\ Len(state.summaries) = 1
    /\ \E i \in DOMAIN calls : calls[i].provider = "ollama"

\* the functions that call an LLM with the provider fallback
FallbackFns == { "summarize_segment", "create_global_summary", "extract_insights" }

\* C11: in summarize_segment, create_global_summary and extract_insights
\* the primary provider is invoked first, as the first step of the call;
\* the secondary provider is invoked only directly after the primary
\* invocation of the same call raised; so each provider is invoked at most
\* once per call and never the secondary after a primary success.
C11_LinearFallback ==
    \A i \in DOMAIN calls :
        calls[i].fn \in FallbackFns =>
            LET c == calls[i]
            IN  /\ c.provider = "openai" =>
                      /\ i > 1
                      /\ calls[i - 1] = Call(c.fn, "call", c.input)
                /\ c.provider = "ollama" =>
                      /\ i > 2
                      /\ calls[i - 1] = Call(c.fn, "openai raised", c.input)
                      /\ calls[i - 2] = Call(c.fn, "openai", c.input)

\* C11 witness: in one summarizer run a segment was summarized by the
\* primary provider alone and the global summary came from the secondary
\* provider after the primary raised.
C11_Witness ==
    /\ Summarized
    /\ \E i \in SegmentCalls :
          /\ calls[i + 1].provider = "openai"
          /\ calls[i + 2].provider = "return"
    /\ \E g \in GlobalCalls :
          /\ calls[g + 2].provider = "openai raised"
          /\ calls[g + 3].provider = "ollama"
          /\ calls[g + 4].provider = "return"

\* the classifier node has run
Classified == Len(trace) >= 2

\* C12: after classifier_node the classification is a JSON object whose
\* type is one of the four categories and whose confidence is high, medium
\* or low, whatever the providers return or raise and also when there is
\* no transcript.
C12_ValidClassification ==
    Classified =>
        /\ state.classification # None
        /\ state.classification.type \in ValidTypes
        /\ state.classification.confidence \in ValidConfidence

\* C12 witness: a provider answered a JSON object with an unknown type and
\* an unknown confidence, and the node returned the repaired object.
C12_Witness ==
    /\ pc = "segmenter"
    /\ \E i \in DOMAIN calls : calls[i].fn = "classify_content"
    /\ state.classification
          = Classification("General Content", "medium", "from model")

\* how each summarize_segment call of the summarizer run ended, in call
\* order ("return" or "raise")
SegmentOutcomes ==
    SelectSeq(calls, LAMBDA c : /\ c.fn = "summarize_segment"
                                /\ c.provider \in { "return", "raise" })

RECURSIVE IndicesWith(_, _, _, _)
\* the indices of the segments vs[k..] whose call ended with outcome
IndicesWith(vs, outcomes, k, outcome) ==
    IF k > Len(vs) \/ k > Len(outcomes) THEN << >>
    ELSE (IF outcomes[k].provider = outcome
          THEN << vs[k].metadata.index >> ELSE << >>)
         \o IndicesWith(vs, outcomes, k + 1, outcome)

\* both providers raised in the global-summary call
GlobalFailed ==
    \E i \in DOMAIN calls :
        calls[i] = Call("create_global_summary", "ollama raised", << >>)

\* C19: if the global-summary call fails for both providers,
\* summarizer_node returns all successful per-segment summaries, in
\* segment order, with the error of the global-summary failure.
C19_FallbackToSegments ==
    (Summarized /\ GlobalFailed) =>
        LET vs == ValidSegments(InputSegments(state))
            expected == IndicesWith(vs, SegmentOutcomes, 1, "return")
        IN  /\ Len(SegmentOutcomes) = Len(vs)
            /\ Len(state.summaries) = Len(expected)
            /\ \A i \in DOMAIN state.summaries :
                  /\ state.summaries[i].metadata.type = "segment_summary"
                  /\ state.summaries[i].metadata.segment_index = expected[i]
                  /\ NonBlank(state.summaries[i].content)
            /\ state.error = Err("Failed to create global summary", << >>)

\* C19 witness: of three segments the second failed, the global summary
\* failed for both providers, and the two summaries came back.
C19_Witness ==
    /\ Summarized
    /\ GlobalFailed
    /\ Len(SegmentOutcomes) = 3
    /\ SegmentOutcomes[2].provider = "raise"
    /\ Len(state.summaries) = 2

\* the texts summarize_segment was called with, in call order
SegmentCallInputs ==
    LET entered == SelectSeq(calls, LAMBDA c : /\ c.fn = "summarize_segment"
                                               /\ c.provider = "call")
    IN  [k \in DOMAIN entered |-> entered[k].input]

\* C20: summarizer_node calls summarize_segment once for each valid
\* segment, in segment order, with no second call for a segment that
\* failed; the summaries collected and the failed segments together are
\* as many as the valid segments, and the collected summaries are in the
\* order of their segments.
C20_OncePerSegment ==
    Summarized =>
        LET vs == ValidSegments(InputSegments(state))
            ok == IndicesWith(vs, SegmentOutcomes, 1, "return")
            failed == IndicesWith(vs, SegmentOutcomes, 1, "raise")
        IN  /\ SegmentCallInputs = [k \in DOMAIN vs |-> vs[k].content]
            /\ Len(SegmentOutcomes) = Len(vs)
            /\ Len(ok) + Len(failed) = Len(vs)
            /\ IF GlobalReturns # {}
               THEN /\ state.summaries[1].metadata.segment_count = Len(ok)
                    /\ state.summaries[1].metadata.failed_segments = failed
               ELSE /\ Len(state.summaries) = Len(ok)
                    /\ \A i \in DOMAIN state.summaries :
                          state.summaries[i].metadata.segment_index = ok[i]
                    /\ GlobalCalls = {} => state.error.detail = failed

\* C20 witness: of three valid segments the first failed and the other
\* two were summarized, each after one call.
C20_Witness ==
    /\ Summarized
    /\ Len(SegmentCallInputs) = 3
    /\ SegmentOutcomes[1].provider = "raise"
    /\ SegmentOutcomes[2].provider = "return"
    /\ SegmentOutcomes[3].provider = "return"

\* C15: within one pipeline run, once a stage has set error to a non-null
\* message, error is non-null in every later state, and the result
\* process_video returns reports it.
C15_ErrorSticky ==
    [][ /\ state.error # NoError => state'.error # NoError
        /\ (state.error # NoError /\ pc' = "returned") =>
              result'.error # NoError ]_vars

\* the transcriber stage has run and failed: it left no transcript
TranscriberFailed == Len(trace) >= 1 /\ state.transcript = NoneText

\* C16: if the transcriber stage fails, no LLM provider is invoked in any
\* later stage of the run, and the final result has a non-null error and
\* an empty summaries list.
C16_NoLLMAfterTranscriberFailure ==
    TranscriberFailed =>
        /\ \A i \in DOMAIN calls : calls[i].provider \notin { "openai", "ollama" }
        /\ state.error # NoError
        /\ pc = "returned" =>
              /\ result.error # NoError
              /\ result.summaries = << >>

\* C16 witness: the URL was valid, the transcript fetch raised, and the
\* run has returned.
C16_Witness ==
    /\ pc = "returned"
    /\ TranscriberFailed
    /\ ~get_video_id(state.video_url).raised
    /\ result.insights # None

SegmentRaises ==
    Entries(LAMBDA c : c.fn = "summarize_segment" /\ c.provider = "raise")

\* the summarize_segment call that raised at entry i of the log had invoked
\* the second provider: both providers failed for that segment
BothProvidersFailed(i) ==
    /\ i > 1
    /\ calls[i - 1].fn = "summarize_segment"
    /\ calls[i - 1].provider \in { "ollama", "ollama raised" }

\* summarizer_node has run, and both providers failed for some but not all
\* of the segments
PartialFailure ==
    /\ Summarized
    /\ SegmentReturns # {}
    /\ SegmentRaises # {}
    /\ \A i \in SegmentRaises : BothProvidersFailed(i)

\* C21: when both providers fail for some but not all segments,
\* summarizer_node skips the failed segments and continues with the
\* following ones, returns a non-empty summaries list built from the
\* successful segments, and returns an error that lists the indices of the
\* failed segments.
C21_PartialFailureReported ==
    PartialFailure =>
        LET vs == ValidSegments(InputSegments(state))
            ok == IndicesWith(vs, SegmentOutcomes, 1, "return")
            failed == IndicesWith(vs, SegmentOutcomes, 1, "raise")
        IN  /\ Len(SegmentOutcomes) = Len(vs)
            /\ state.summaries # << >>
            /\ IF GlobalReturns # {}
               THEN state.summaries[1].metadata.segment_count = Len(ok)
               ELSE /\ Len(state.summaries) = Len(ok)
                    /\ \A i \in DOMAIN state.summaries :
                          state.summaries[i].metadata.segment_index = ok[i]
            /\ state.error # NoError
            /\ state.error.detail = failed

(***************************************************************************)
(* Properties of the stage functions (StageSpec, and Spec where named)     *)
(***************************************************************************)
\* a stage function has returned, and which one
StageRan == Len(trace) > 0

LastStage == trace[Len(trace)]

\* an external call of the stage run last failed for good: the transcript
\* API raised, or the secondary provider raised after the primary failed
ExternalFailed ==
    \E i \in DOMAIN calls :
        calls[i].provider \in { "youtube raised", "ollama raised" }

\* the output field of the stage run last holds its default value
DefaultOutput ==
    CASE LastStage = "transcriber" -> state.transcript = NoneText
      [] LastStage = "classifier" ->
            /\ state.classification # None
            /\ state.classification.type = "General Content"
            /\ state.classification.confidence = "low"
      [] LastStage = "segmenter" -> state.segments = NoneSegments
      [] LastStage = "summarizer" -> state.summaries = << >>
      [] LastStage = "generate_insights" ->
            /\ state.generated_insights # None
            /\ state.generated_insights.metadata.error # NoneStr

\* C13 as claimed: a stage in which an external call failed returns an
\* update with an error message and the default value of its output field.
C13_Original ==
    (StageRan /\ ExternalFailed) =>
        /\ state.error # NoError
        /\ DefaultOutput

\* C13 amended: every stage returns an update; an update that carries an
\* error message holds the default value of the stage's output field,
\* except that summarizer_node keeps the summaries it obtained when at
\* least one segment was summarized; a failed external call gives an error
\* message in every stage but classifier_node, which returns the default
\* classification without one.
C13_ErrorWithDefault ==
    StageRan =>
        /\ state.error # NoError =>
              \/ DefaultOutput
              \/ LastStage = "summarizer" /\ SegmentReturns # {}
        /\ (ExternalFailed /\ LastStage # "classifier") => state.error # NoError
        /\ (ExternalFailed /\ LastStage = "classifier") => DefaultOutput

\* C13 witness: summarizer_node was called on a state without a
\* classification, and the exception that raises came back as an error
\* message with an empty summaries list.
C13_Witness ==
    /\ StageRan
    /\ LastStage = "summarizer"
    /\ state.classification = None
    /\ state.error = Err("TypeError", << >>)
    /\ state.summaries = << >>

\* C22: summarizer_node returns an empty summaries list only together
\* with a non-null error, and a non-empty summaries list whenever at least
\* one segment was summarized successfully.
C22_EmptyOnlyWithError ==
    (StageRan /\ LastStage = "summarizer") =>
        /\ state.summaries = << >> => state.error # NoError
        /\ SegmentReturns # {} => state.summaries # << >>

\* C22 witness: summarizer_node was called on a state whose segments had
\* no content: it returned the empty list with an error.
C22_Witness ==
    /\ StageRan
    /\ LastStage = "summarizer"
    /\ state.segments # NoneSegments
    /\ state.segments # << >>
    /\ ValidSegments(state.segments) = << >>
    /\ state.summaries = << >>
    /\ state.error = Err("No valid segments available for summarization", << >>)

\* insights_node returned the dictionary extract_insights built from the
\* model's answer (the placeholders of the failure paths have no video_type)
InsightsFromModel == state.generated_insights.metadata.video_type # NoneStr

\* C23: after insights_node, generated_insights is never None: on every
\* path it is a dictionary with a non-empty content; on every failure path
\* the returned error is non-null, and on the success path it is None.
C23_InsightsNeverNone ==
    (StageRan /\ LastStage = "generate_insights") =>
        /\ state.generated_insights # None
        /\ state.generated_insights.content # ""
        /\ InsightsFromModel =>
              /\ state.error = NoError
              /\ NonBlank(state.generated_insights.content)
        /\ ~InsightsFromModel =>
              /\ state.error # NoError
              /\ state.generated_insights.metadata.error # NoneStr

\* C23 witness: extract_insights returned, the model's answer was blank,
\* and insights_node returned the placeholder with an error.
C23_Witness ==
    /\ StageRan
    /\ LastStage = "generate_insights"
    /\ \E i \in DOMAIN calls : calls[i] = Call("extract_insights", "return", << >>)
    /\ state.generated_insights
          = Insights("Failed to generate meaningful insights", NoneStr, -1,
                     "Invalid insights format")
    /\ state.error = Err("Failed to generate valid insights", << >>)

\* C24: transcriber_node returns either a transcript or an error, never
\* both and never neither: after it exactly one of transcript and error is
\* non-None.
C24_TranscriptXorError ==
    (StageRan /\ LastStage = "transcriber") =>
        (state.transcript # NoneText) # (state.error # NoError)

\* C24 witness: the transcript API returned no item; transcriber_node
\* returned the empty transcript, which is not None, and no error.
C24_Witness ==
    /\ StageRan
    /\ LastStage = "transcriber"
    /\ calls = << Call("transcriber_node", "youtube", << >>) >>
    /\ state.transcript = << >>
    /\ state.error = NoError

\* classifier_node has just run and called classify_content
ClassifyRan == StageRan /\ LastStage = "classifier" /\ calls # << >>

PrimaryInvocations ==
    Entries(LAMBDA c : c.fn = "classify_content" /\ c.provider = "openai")

SecondaryInvocations ==
    Entries(LAMBDA c : c.fn = "classify_content" /\ c.provider = "ollama")

\* the primary provider raised
PrimaryRaised ==
    \E i \in DOMAIN calls : calls[i] = Call("classify_content", "openai raised", << >>)

\* the primary provider answered, and whether its output validated
PrimaryAnswered(verdict) ==
    /\ Len(calls) >= 2
    /\ calls[2].fn = "validate_classification"
    /\ calls[2].provider = verdict

\* the secondary provider was invoked and its output validated
SecondaryValid ==
    /\ SecondaryInvocations # {}
    /\ calls[Len(calls)].fn = "validate_classification"
    /\ calls[Len(calls)].provider = "valid"

\* the default classification of lines 132-137 and 142-148
IsDefaultClassification ==
    /\ state.classification.type = "General Content"
    /\ state.classification.confidence = "low"
    /\ state.classification.reason
          \in { "Classification error",
                "Failed to get valid classification from models" }

\* C25: classify_content returns the primary provider's classification
\* without invoking the secondary whenever the primary output validates; it
\* invokes the secondary exactly when the primary raised or returned output
\* that fails validation; and when the secondary also raises, returns empty
\* output or fails validation, it returns the default classification
\* (General Content, confidence low).
C25_PrimaryThenSecondary ==
    ClassifyRan =>
        /\ calls[1] = Call("classify_content", "openai", << >>)
        /\ Cardinality(PrimaryInvocations) = 1
        /\ Cardinality(SecondaryInvocations) <= 1
        /\ PrimaryAnswered("valid") =>
              /\ SecondaryInvocations = {}
              /\ state.classification
                    = validate_classification(OutputOf(calls[2].input))
        /\ SecondaryInvocations # {}
              <=> (PrimaryRaised \/ PrimaryAnswered("invalid"))
        /\ (SecondaryInvocations # {} /\ ~SecondaryValid) =>
              IsDefaultClassification

\* C25 witness: the primary output failed validation, the secondary was
\* invoked and answered nothing, and the default classification came back.
C25_Witness ==
    /\ ClassifyRan
    /\ PrimaryAnswered("invalid")
    /\ calls[Len(calls)] = Call("classify_content", "ollama", << >>)
    /\ state.classification
          = Classification("General Content", "low", "Classification error")

(***************************************************************************)
(* Properties of WebpageSummarizer.process_url (WebSpec)                   *)
(***************************************************************************)
\* C14: whenever a step of process_url (URL validation, scraping, summary
\* generation) fails, process_url raises a WebpageError.
C14_RaisesWebpageError ==
    (web.pc \in { "returned", "raised" } /\ web.failed # NoException) =>
        web.raised.class \in WebpageErrors

=============================================================================
